---- MODULE Spec2Model ----
(***************************************************************************)
(* Model of prepare_class.py: the daily classroom preparation script.      *)
(*                                                                         *)
(* Spec     : repeated invocations of main() against a remote drive and    *)
(*            classroom service whose calls may fail (HttpError).          *)
(* DateSpec : the schedule calculator get_assignment_date() applied to a   *)
(*            bounded set of current timestamps.                           *)
(***************************************************************************)
EXTENDS Integers, Sequences, FiniteSets

(* ------------------------------ bounds -------------------------------- *)

\* number of invocations of the script that are followed
MaxRuns == 3

\* length of SECRETS.ASSIGNMENT_DICT, the ordered template list
NumTemplates == 2

\* number of consecutive calendar days the current date is drawn from
DaySpan == 8

(* ------------------------- program constants -------------------------- *)

EXIT_SUCCESS == 0

EXIT_FAILURE == 1

\* datetime.time(8, 00, 00) as <<hour, minute, second, microsecond>>
CLASS_START == <<8, 0, 0, 0>>

\* the value build_credentials / build_*_service return without credentials
None == "None"

\* a service handle returned by build(...)
Service == "service"

\* the value copy_drive_file and add_assignment return after an HttpError
FAILED_ID == 0

\* the state of a file of the working directory that does not exist
NoFile == [exists |-> FALSE, data |-> <<>>]

\* SECRETS.ASSIGNMENT_DICT: the template file ids, in configuration order
Templates == [j \in 1..NumTemplates |-> 0 - j]

VARIABLES
    pc,            \* position of the script: idle between invocations
    runs,          \* number of invocations started
    courses,       \* args.courses
    class_serv,    \* prepare_tomorrow / list_course_ids: classroom handle
    drive_serv,    \* prepare_tomorrow: drive handle
    yesterday,     \* the file YESTERDAY_FILE
    errorFile,     \* the file ERROR_FILE
    files,         \* remote: ids of the drive files this script created
    assignments,   \* remote: <<assignment id, material file id>> of coursework
    nextId,        \* remote: next identifier handed out
    id_list,       \* clean_yesterday: the unpickled list
    i,             \* clean_yesterday: index of the pair being deleted
    k,             \* perform_copy_and_create: index of the template
    drivefile_id,  \* perform_copy_and_create: result of copy_drive_file
    created_ids,   \* prepare_tomorrow: the list being collected
    result,        \* value returned by the selected operation, or "raised"
    exitStatus,    \* exit status of the last invocation
    recordBefore,  \* history: YESTERDAY_FILE when the invocation started
    calls,         \* history: remote calls issued by this invocation
    torn,          \* YESTERDAY_FILE was opened for writing and never completed
    now,           \* get_assignment_date: datetime.datetime.now()
    assignment_date, \* get_assignment_date: the returned datetime
    dateDone       \* get_assignment_date has returned

runVars == <<pc, runs, courses, class_serv, drive_serv, yesterday, errorFile,
             files, assignments, nextId, id_list, i, k, drivefile_id,
             created_ids, result, exitStatus, recordBefore, calls, torn>>

dateVars == <<now, assignment_date, dateDone>>

vars == <<pc, runs, courses, class_serv, drive_serv, yesterday, errorFile,
          files, assignments, nextId, id_list, i, k, drivefile_id,
          created_ids, result, exitStatus, recordBefore, calls, torn,
          now, assignment_date, dateDone>>

(* --------------------------- pure helpers ----------------------------- *)

Range(s) == {s[j] : j \in 1..Len(s)}

\* one remote call as it is remembered in the history
Call(op, arg, res, ok) == [op |-> op, arg |-> arg, res |-> res, ok |-> ok]

\* record_exception(e): ERROR_FILE is rewritten with the error payload
record_exception(op, arg) == [exists |-> TRUE, data |-> <<op, arg>>]

\* datetime.time comparison a < b: lexicographic on the four fields
TimeLess(a, b) ==
    \E p \in 1..4 : /\ a[p] < b[p]
                    /\ \A q \in 1..(p - 1) : a[q] = b[q]

\* datetime.weekday(): Monday = 0 ... Sunday = 6, from the proleptic ordinal
Weekday(d) == (d.ord + 6) % 7

\* CLASS_START < now.time()
PastClassStartLoose(d) == ~TimeLess(d.time, CLASS_START)

PastClassStartInverted(d) == TimeLess(d.time, CLASS_START)

PastClassStart(d) == TimeLess(CLASS_START, d.time)

\* d + datetime.timedelta(days=n)
AddDays(d, n) == [d EXCEPT !.ord = @ + n]

\* d.replace(hour=..., minute=..., second=...): the microsecond is kept
ReplaceHMS(d, t) == [d EXCEPT !.time = <<t[1], t[2], t[3], @[4]>>]

DaysToMondayShort(weekday) == 6 - weekday

\* datetime.timedelta(days=(1 + (6 - weekday)))
DaysToMonday(weekday) == 1 + (6 - weekday)

get_assignment_date_friday(d) ==
    LET weekday == Weekday(d)
        moved == IF weekday < 5 /\ PastClassStart(d)
                     THEN AddDays(d, 1)
                 ELSE IF 4 < weekday
                     THEN AddDays(d, DaysToMonday(weekday))
                 ELSE d
    IN  ReplaceHMS(moved, CLASS_START)

get_assignment_date(d) ==
    LET weekday == Weekday(d)
        moved == IF weekday < 4 /\ PastClassStart(d)
                     THEN AddDays(d, 1)
                 ELSE IF 4 < weekday \/ (weekday = 4 /\ PastClassStart(d))
                     THEN AddDays(d, DaysToMonday(weekday))
                 ELSE d
    IN  ReplaceHMS(moved, CLASS_START)

(* ------------------------------- Init --------------------------------- *)

\* the times of day the current timestamp is drawn from
Times == { <<0, 0, 0, 0>>, <<7, 0, 0, 0>>, <<7, 59, 59, 999999>>,
           <<8, 0, 0, 0>>, <<8, 0, 0, 1>>, <<8, 0, 1, 0>>,
           <<15, 30, 0, 250000>>, <<23, 59, 59, 999999>> }

\* date.toordinal() of the first current date: 2020-04-06, a Monday
FirstDay == 737521

Nows == [ord : FirstDay..(FirstDay + DaySpan - 1), time : Times]

RunInit ==
    /\ pc = "idle"
    /\ runs = 0
    /\ courses = FALSE
    /\ class_serv = None
    /\ drive_serv = None
    /\ yesterday = NoFile
    /\ errorFile = NoFile
    /\ files = {}
    /\ assignments = {}
    /\ nextId = 1
    /\ id_list = <<>>
    /\ i = 1
    /\ k = 1
    /\ drivefile_id = FAILED_ID
    /\ created_ids = <<>>
    /\ result = "none"
    /\ exitStatus = EXIT_SUCCESS
    /\ recordBefore = NoFile
    /\ calls = <<>>
    /\ torn = FALSE

Init ==
    /\ RunInit
    /\ now = [ord |-> FirstDay, time |-> CLASS_START]
    /\ assignment_date = now
    /\ dateDone = FALSE

DateInit ==
    /\ RunInit
    /\ now \in Nows
    /\ assignment_date = now
    /\ dateDone = FALSE

(* ------------------------- decisions of the code ---------------------- *)

ServicesMissingBoth(d, c) == d = None /\ c = None

\* prepare_tomorrow: drive_serv is None or class_serv is None
ServicesMissing(d, c) == d = None \/ c = None

CallFailedNever(id) == FALSE

\* perform_copy_and_create: 0 == drivefile_id, 0 == assignment_id
CallFailed(id) == id = FAILED_ID

YieldPairSwapped(assignment_id, file_id) == <<file_id, assignment_id>>

\* perform_copy_and_create: yield assignment_id, drivefile_id
YieldPair(assignment_id, file_id) == <<assignment_id, file_id>>

\* the remote services answer a delete of an id they do not hold with an error
CanDeleteAssignment(id) == \E a \in assignments : a[1] = id

CanDeleteFile(id) == id \in files

(* ------------------------------ main() -------------------------------- *)

\* main: a new invocation parses its arguments and selects the operation
Main ==
    /\ pc = "idle"
    /\ runs < MaxRuns
    /\ runs' = runs + 1
    /\ courses' \in BOOLEAN
    /\ pc' = IF courses' THEN "list_build" ELSE "build"
    /\ class_serv' = None
    /\ drive_serv' = None
    /\ id_list' = <<>>
    /\ i' = 1
    /\ k' = 1
    /\ drivefile_id' = FAILED_ID
    /\ created_ids' = <<>>
    /\ result' = "none"
    /\ recordBefore' = yesterday
    /\ calls' = <<>>
    /\ UNCHANGED <<yesterday, errorFile, files, assignments, nextId,
                   exitStatus>>
    /\ UNCHANGED torn
    /\ UNCHANGED dateVars

\* main: script_result from the operation's return value; an HttpError that
\* nothing catches ends the interpreter with status 1
Exit ==
    /\ pc = "return"
    /\ exitStatus' = IF result = "True" THEN EXIT_SUCCESS ELSE EXIT_FAILURE
    /\ pc' = "idle"
    /\ UNCHANGED <<runs, courses, class_serv, drive_serv, yesterday,
                   errorFile, files, assignments, nextId, id_list, i, k,
                   drivefile_id, created_ids, result, recordBefore, calls>>
    /\ UNCHANGED torn
    /\ UNCHANGED dateVars

(* ------------------------- list_course_ids() -------------------------- *)

ListBuildService ==
    /\ pc = "list_build"
    /\ \E c \in {None, Service} :
          /\ class_serv' = c
          /\ IF c = None
                THEN result' = "False" /\ pc' = "return"
                ELSE result' = result /\ pc' = "list"
    /\ UNCHANGED <<runs, courses, drive_serv, yesterday, errorFile, files,
                   assignments, nextId, id_list, i, k, drivefile_id,
                   created_ids, exitStatus, recordBefore, calls>>
    /\ UNCHANGED torn
    /\ UNCHANGED dateVars

ListCourses ==
    /\ pc = "list"
    /\ \E ok \in BOOLEAN :
          /\ calls' = Append(calls, Call("listCourses", 0, 0, ok))
          /\ result' = IF ok THEN "True" ELSE "False"
          /\ errorFile' = IF ok THEN errorFile
                          ELSE record_exception("listCourses", 0)
    /\ pc' = "return"
    /\ UNCHANGED <<runs, courses, class_serv, drive_serv, yesterday, files,
                   assignments, nextId, id_list, i, k, drivefile_id,
                   created_ids, exitStatus, recordBefore>>
    /\ UNCHANGED torn
    /\ UNCHANGED dateVars

(* -------------------------- prepare_tomorrow() ------------------------ *)

\* both services are built, then checked
BuildServices ==
    /\ pc = "build"
    /\ \E c \in {None, Service}, d \in {None, Service} :
          /\ class_serv' = c
          /\ drive_serv' = d
          /\ IF ServicesMissing(d, c)
                THEN result' = "False" /\ pc' = "return"
                ELSE result' = result /\ pc' = "exists"
    /\ UNCHANGED <<runs, courses, yesterday, errorFile, files, assignments,
                   nextId, id_list, i, k, drivefile_id, created_ids,
                   exitStatus, recordBefore, calls>>
    /\ UNCHANGED torn
    /\ UNCHANGED dateVars

\* os.path.exists(YESTERDAY_FILE): the list is unpickled for clean_yesterday
LoadRecord ==
    /\ pc = "exists"
    /\ yesterday.exists
    /\ ~torn
    /\ id_list' = yesterday.data
    /\ i' = 1
    /\ pc' = "delA"
    /\ UNCHANGED <<runs, courses, class_serv, drive_serv, yesterday,
                   errorFile, files, assignments, nextId, k, drivefile_id,
                   created_ids, result, exitStatus, recordBefore, calls>>
    /\ UNCHANGED torn
    /\ UNCHANGED dateVars

\* no YESTERDAY_FILE: straight on to the copies
SkipCleanup ==
    /\ pc = "exists"
    /\ ~yesterday.exists
    /\ pc' = "copy"
    /\ UNCHANGED <<runs, courses, class_serv, drive_serv, yesterday,
                   errorFile, files, assignments, nextId, id_list, i, k,
                   drivefile_id, created_ids, result, exitStatus,
                   recordBefore, calls>>
    /\ UNCHANGED torn
    /\ UNCHANGED dateVars

(* --------------------------- clean_yesterday() ------------------------ *)

DeleteAssignmentIgnoringError ==
    /\ pc = "delA"
    /\ i <= Len(id_list)
    /\ LET assignment_id == id_list[i][1] IN
       \E ok \in BOOLEAN :
          /\ ok => CanDeleteAssignment(assignment_id)
          /\ calls' = Append(calls,
                             Call("deleteAssignment", assignment_id, 0, ok))
          /\ assignments' = IF ok
                               THEN {a \in assignments : a[1] # assignment_id}
                               ELSE assignments
          /\ pc' = "delF"
    /\ UNCHANGED <<runs, courses, class_serv, drive_serv, yesterday,
                   errorFile, files, nextId, id_list, i, k, drivefile_id,
                   created_ids, result, exitStatus, recordBefore>>
    /\ UNCHANGED torn
    /\ UNCHANGED dateVars

\* courseWork().delete(...).execute(); an HttpError is caught nowhere
DeleteAssignment ==
    /\ pc = "delA"
    /\ i <= Len(id_list)
    /\ LET assignment_id == id_list[i][1] IN
       \E ok \in BOOLEAN :
          /\ ok => CanDeleteAssignment(assignment_id)
          /\ calls' = Append(calls,
                             Call("deleteAssignment", assignment_id, 0, ok))
          /\ IF ok
                THEN /\ assignments' =
                            {a \in assignments : a[1] # assignment_id}
                     /\ pc' = "delF"
                     /\ result' = result
                ELSE /\ assignments' = assignments
                     /\ pc' = "return"
                     /\ result' = "raised"
    /\ UNCHANGED <<runs, courses, class_serv, drive_serv, yesterday,
                   errorFile, files, nextId, id_list, i, k, drivefile_id,
                   created_ids, exitStatus, recordBefore>>
    /\ UNCHANGED torn
    /\ UNCHANGED dateVars

\* files().delete(...).execute(); an HttpError is caught nowhere
DeleteFile ==
    /\ pc = "delF"
    /\ LET file_id == id_list[i][2] IN
       \E ok \in BOOLEAN :
          /\ ok => CanDeleteFile(file_id)
          /\ calls' = Append(calls, Call("deleteFile", file_id, 0, ok))
          /\ IF ok
                THEN /\ files' = files \ {file_id}
                     /\ i' = i + 1
                     /\ pc' = "delA"
                     /\ result' = result
                ELSE /\ files' = files
                     /\ i' = i
                     /\ pc' = "return"
                     /\ result' = "raised"
    /\ UNCHANGED <<runs, courses, class_serv, drive_serv, yesterday,
                   errorFile, assignments, nextId, id_list, k, drivefile_id,
                   created_ids, exitStatus, recordBefore>>
    /\ UNCHANGED torn
    /\ UNCHANGED dateVars

\* the for loop of clean_yesterday is exhausted
CleanDone ==
    /\ pc = "delA"
    /\ i > Len(id_list)
    /\ pc' = "copy"
    /\ UNCHANGED <<runs, courses, class_serv, drive_serv, yesterday,
                   errorFile, files, assignments, nextId, id_list, i, k,
                   drivefile_id, created_ids, result, exitStatus,
                   recordBefore, calls>>
    /\ UNCHANGED torn
    /\ UNCHANGED dateVars

(* ----------------------- perform_copy_and_create() -------------------- *)

\* copy_drive_file: the id of the copy, or 0 after record_exception
CopyFile ==
    /\ pc = "copy"
    /\ k <= Len(Templates)
    /\ \E ok \in BOOLEAN :
          LET id == IF ok THEN nextId ELSE FAILED_ID IN
          /\ calls' = Append(calls, Call("copy", Templates[k], id, ok))
          /\ files' = IF ok THEN files \cup {nextId} ELSE files
          /\ nextId' = IF ok THEN nextId + 1 ELSE nextId
          /\ errorFile' = IF ok THEN errorFile
                          ELSE record_exception("copy", Templates[k])
          /\ drivefile_id' = id
          /\ pc' = IF CallFailed(id) THEN "save" ELSE "create"
    /\ UNCHANGED <<runs, courses, class_serv, drive_serv, yesterday,
                   assignments, id_list, i, k, created_ids, result,
                   exitStatus, recordBefore>>
    /\ UNCHANGED torn
    /\ UNCHANGED dateVars

\* add_assignment: the id of the coursework, or 0 after record_exception;
\* a pair is yielded and collected only when both ids were returned
AddAssignment ==
    /\ pc = "create"
    /\ \E ok \in BOOLEAN :
          LET id == IF ok THEN nextId ELSE FAILED_ID IN
          /\ calls' = Append(calls, Call("create", drivefile_id, id, ok))
          /\ assignments' = IF ok
                               THEN assignments \cup {<<nextId, drivefile_id>>}
                               ELSE assignments
          /\ nextId' = IF ok THEN nextId + 1 ELSE nextId
          /\ errorFile' = IF ok THEN errorFile
                          ELSE record_exception("create", drivefile_id)
          /\ IF CallFailed(id)
                THEN /\ pc' = "save"
                     /\ created_ids' = created_ids
                     /\ k' = k
                ELSE /\ pc' = "copy"
                     /\ created_ids' =
                            Append(created_ids, YieldPair(id, drivefile_id))
                     /\ k' = k + 1
    /\ UNCHANGED <<runs, courses, class_serv, drive_serv, yesterday, files,
                   id_list, i, drivefile_id, result, exitStatus,
                   recordBefore>>
    /\ UNCHANGED torn
    /\ UNCHANGED dateVars

\* the for loop over SECRETS.ASSIGNMENT_DICT is exhausted
TemplatesDone ==
    /\ pc = "copy"
    /\ k > Len(Templates)
    /\ pc' = "save"
    /\ UNCHANGED <<runs, courses, class_serv, drive_serv, yesterday,
                   errorFile, files, assignments, nextId, id_list, i, k,
                   drivefile_id, created_ids, result, exitStatus,
                   recordBefore, calls>>
    /\ UNCHANGED torn
    /\ UNCHANGED dateVars

SaveRecordThenClean ==
    /\ pc = "save"
    /\ yesterday' = [exists |-> TRUE, data |-> created_ids]
    /\ torn' = FALSE
    /\ pc' = "exists"
    /\ UNCHANGED <<runs, courses, class_serv, drive_serv, errorFile, files,
                   assignments, nextId, id_list, i, k, drivefile_id,
                   created_ids, result, exitStatus, recordBefore, calls>>
    /\ UNCHANGED dateVars

\* prepare_tomorrow: pickle.dump(created_ids, ...) and return True
SaveRecord ==
    /\ pc = "save"
    /\ yesterday' = [exists |-> TRUE, data |-> created_ids]
    /\ torn' = FALSE
    /\ result' = "True"
    /\ pc' = "return"
    /\ UNCHANGED <<runs, courses, class_serv, drive_serv, errorFile, files,
                   assignments, nextId, id_list, i, k, drivefile_id,
                   created_ids, exitStatus, recordBefore, calls>>
    /\ UNCHANGED dateVars

(* ------------------------ an interrupted write ------------------------ *)

\* open(YESTERDAY_FILE, "wb") has truncated the file and the process is
\* killed before pickle.dump has written the whole list
InterruptSave ==
    /\ pc = "save"
    /\ yesterday' = [exists |-> TRUE, data |-> <<>>]
    /\ torn' = TRUE
    /\ result' = "killed"
    /\ pc' = "return"
    /\ UNCHANGED <<runs, courses, class_serv, drive_serv, errorFile, files,
                   assignments, nextId, id_list, i, k, drivefile_id,
                   created_ids, exitStatus, recordBefore, calls>>
    /\ UNCHANGED dateVars

\* pickle.load of a truncated file raises and nothing catches it
LoadTornRecord ==
    /\ pc = "exists"
    /\ yesterday.exists
    /\ torn
    /\ result' = "raised"
    /\ pc' = "return"
    /\ UNCHANGED <<runs, courses, class_serv, drive_serv, yesterday,
                   errorFile, files, assignments, nextId, id_list, i, k,
                   drivefile_id, created_ids, exitStatus, recordBefore,
                   calls>>
    /\ UNCHANGED torn
    /\ UNCHANGED dateVars

(* ------------------------- get_assignment_date() ---------------------- *)

GetAssignmentDate ==
    /\ ~dateDone
    /\ assignment_date' = get_assignment_date(now)
    /\ dateDone' = TRUE
    /\ UNCHANGED now
    /\ UNCHANGED runVars

\* the clock is read again by a later call
ReadClock ==
    /\ dateDone
    /\ now' \in Nows
    /\ assignment_date' = now'
    /\ dateDone' = FALSE
    /\ UNCHANGED runVars

(* --------------------------- specifications --------------------------- *)

Next ==
    \/ Main
    \/ Exit
    \/ ListBuildService
    \/ ListCourses
    \/ BuildServices
    \/ LoadRecord
    \/ SkipCleanup
    \/ DeleteAssignment
    \/ DeleteFile
    \/ CleanDone
    \/ CopyFile
    \/ AddAssignment
    \/ TemplatesDone
    \/ SaveRecord

Spec == Init /\ [][Next]_vars

\* the same runs, where the process may also be killed while it saves
CrashNext ==
    \/ Next
    \/ InterruptSave
    \/ LoadTornRecord

CrashSpec == Init /\ [][CrashNext]_vars

DateNext ==
    \/ GetAssignmentDate
    \/ ReadClock

DateSpec == DateInit /\ [][DateNext]_vars

(* ------------------------------ typing -------------------------------- *)

TypeOK ==
    /\ pc \in {"idle", "build", "list_build", "list", "exists", "delA",
               "delF", "copy", "create", "save", "return"}
    /\ runs \in 0..MaxRuns
    /\ courses \in BOOLEAN
    /\ result \in {"none", "True", "False", "raised", "killed"}
    /\ exitStatus \in {EXIT_SUCCESS, EXIT_FAILURE}
    /\ yesterday.exists \in BOOLEAN
    /\ k \in 1..(NumTemplates + 1)
    /\ Len(created_ids) = k - 1

(* ----------------------- vocabulary of the claims --------------------- *)

\* an invocation has ended and the next one has not started
AtEnd == pc = "idle" /\ runs > 0

\* the invocation ran prepare_tomorrow (default mode)
DefaultMode == runs > 0 /\ ~courses

CallsOf(ops) == {c \in Range(calls) : c.op \in ops}

FailedCalls(ops) == {c \in CallsOf(ops) : ~c.ok}

PhaseAFailed == FailedCalls({"deleteAssignment", "deleteFile"}) # {}

PhaseBFailed == FailedCalls({"copy", "create"}) # {}

\* ids of the files copied / assignments created by this invocation
CopiedNow == {c.res : c \in {x \in CallsOf({"copy"}) : x.ok}}

AssignedNow == {c.res : c \in {x \in CallsOf({"create"}) : x.ok}}

RecordedAssignments == {p[1] : p \in Range(yesterday.data)}

RecordedFiles == {p[2] : p \in Range(yesterday.data)}

RemoteAssignments == {a[1] : a \in assignments}

\* the record lists exactly what this program created and still exists
RecordExact ==
    /\ yesterday.exists
    /\ RecordedFiles = files
    /\ RecordedAssignments = RemoteAssignments

Issued(op, arg) == \E c \in CallsOf({op}) : c.arg = arg

(* ------------------------------ claims -------------------------------- *)

\* C1: when a run of prepare_tomorrow ends, the record file is either
\* identical to its content before the run or lists exactly the created
\* files and assignments that still exist remotely.
C1_RecordConsistent ==
    (AtEnd /\ DefaultMode) => (yesterday = recordBefore \/ RecordExact)

\* C2: if a copy or an assignment creation failed, then at the end of the
\* run nothing created during this run exists remotely.
C2_RollbackComplete ==
    (AtEnd /\ DefaultMode /\ PhaseBFailed) =>
        /\ CopiedNow \cap files = {}
        /\ AssignedNow \cap RemoteAssignments = {}

\* C3: if a copy or an assignment creation failed, the record file after
\* the run equals the record file before the run.
C3_RecordNotWritten ==
    (AtEnd /\ DefaultMode /\ PhaseBFailed) => yesterday = recordBefore

\* C4: a failing delete of one pair does not stop the cleanup loop: both
\* deletes are still issued for every other pair of the record, and the
\* failure does not propagate out of clean_yesterday.
C4_CleanupBestEffort ==
    (AtEnd /\ DefaultMode /\ PhaseAFailed) =>
        /\ result # "raised"
        /\ \A j \in 1..Len(recordBefore.data) :
              LET pair == recordBefore.data[j] IN
              (\A c \in FailedCalls({"deleteAssignment", "deleteFile"}) :
                    c.arg # pair[1] /\ c.arg # pair[2])
                 => /\ Issued("deleteAssignment", pair[1])
                    /\ Issued("deleteFile", pair[2])

\* C5: between runs every assignment id of the record file refers to an
\* existing assignment and every file id to an existing file.
C5_RecordIdsExist ==
    pc = "idle" =>
        \A p \in Range(yesterday.data) :
            /\ p[1] \in RemoteAssignments
            /\ p[2] \in files

\* C6: the exit status is the success code only if the selected operation
\* completed without error; a failed copy or creation makes prepare_tomorrow
\* report failure and main return the failure code.
C6_ExitStatusReportsErrors ==
    AtEnd =>
        /\ exitStatus = EXIT_SUCCESS =>
              FailedCalls({"copy", "create", "deleteAssignment",
                           "deleteFile", "listCourses"}) = {}
        /\ (DefaultMode /\ PhaseBFailed) =>
              (result = "False" /\ exitStatus = EXIT_FAILURE)

\* C7: without a classroom handle or without a drive handle, prepare_tomorrow
\* reports failure, issues no remote call and leaves the record file as is.
C7_NoHandleNoCall ==
    (DefaultMode /\ pc # "build"
        /\ (class_serv = None \/ drive_serv = None)) =>
        /\ pc \in {"return", "idle"}
        /\ result = "False"
        /\ calls = <<>>
        /\ yesterday = recordBefore
        /\ pc = "idle" => exitStatus = EXIT_FAILURE

\* C7 witness: a run with a drive handle but no classroom handle has ended
\* while a record with pairs to clean was waiting.
C7_Witness ==
    /\ AtEnd /\ DefaultMode
    /\ class_serv = None /\ drive_serv = Service
    /\ recordBefore.exists /\ Len(recordBefore.data) > 0
    /\ result = "False"

\* C8: every pair of a record this run wrote is a file this run copied and
\* an assignment this run created with that file as its material.
C8_WrittenPairsComplete ==
    (DefaultMode /\ result = "True") =>
        \A p \in Range(yesterday.data) :
            /\ \E c \in CallsOf({"copy"}) : c.ok /\ c.res = p[2]
            /\ \E c \in CallsOf({"create"}) :
                  c.ok /\ c.res = p[1] /\ c.arg = p[2]
            /\ p \in assignments
            /\ p[2] \in files

\* C8 witness: a record with a pair was written by a run in which a later
\* copy or creation failed.
C8_Witness ==
    /\ DefaultMode /\ result = "True"
    /\ PhaseBFailed
    /\ Len(yesterday.data) > 0

\* C9: if every remote call of a run succeeded, the record holds one pair
\* per template, in template order, made of the ids returned for that
\* template, and the run reports success.
C9_AllSucceed ==
    (AtEnd /\ DefaultMode /\ class_serv # None /\ drive_serv # None
        /\ \A c \in Range(calls) : c.ok) =>
        /\ result = "True"
        /\ exitStatus = EXIT_SUCCESS
        /\ yesterday.exists
        /\ Len(yesterday.data) = Len(Templates)
        /\ \A j \in 1..Len(Templates) :
              \E cp \in CallsOf({"copy"}), cr \in CallsOf({"create"}) :
                  /\ cp.arg = Templates[j]
                  /\ cp.res = yesterday.data[j][2]
                  /\ cr.arg = cp.res
                  /\ cr.res = yesterday.data[j][1]

\* C9 witness: a run that first cleaned a full record and then provisioned
\* every template has ended without a failing call.
C9_Witness ==
    /\ AtEnd /\ DefaultMode
    /\ \A c \in Range(calls) : c.ok
    /\ Len(recordBefore.data) = Len(Templates)
    /\ Len(calls) = 4 * Len(Templates)
    /\ result = "True"

\* the number of calendar days get_assignment_date moved the date
DayAdvance == assignment_date.ord - now.ord

\* the current time of day is past 08:00
AfterEight == TimeLess(CLASS_START, now.time)

\* C10 as stated: the date advances by exactly one day if and only if the
\* weekday is Monday, Tuesday or Wednesday and the time is past 08:00; any
\* other Monday-Thursday timestamp keeps the date.
C10_Original ==
    dateDone =>
        /\ (DayAdvance = 1) <=> (Weekday(now) \in 0..2 /\ AfterEight)
        /\ (Weekday(now) \in 0..3 /\ ~(Weekday(now) \in 0..2 /\ AfterEight))
              => DayAdvance = 0

\* C10 amended: the date advances by exactly one day if and only if the
\* weekday is Monday through Thursday and the time is past 08:00, or the
\* weekday is Sunday; a Monday-Thursday timestamp at or before 08:00:00
\* keeps the date.
C10_Amended ==
    dateDone =>
        /\ (DayAdvance = 1) <=>
              ((Weekday(now) \in 0..3 /\ AfterEight) \/ Weekday(now) = 6)
        /\ (Weekday(now) \in 0..3 /\ ~AfterEight) => DayAdvance = 0

\* C10 witness: a Thursday afternoon was moved to Friday.
C10_Witness ==
    /\ dateDone
    /\ Weekday(now) = 3
    /\ AfterEight
    /\ DayAdvance = 1

\* C11: a Saturday or Sunday timestamp, and a Friday timestamp past 08:00,
\* yields the Monday immediately following: 1 + (6 - weekday) days ahead.
C11_WeekendToMonday ==
    (dateDone /\ (Weekday(now) \in {5, 6}
                     \/ (Weekday(now) = 4 /\ AfterEight))) =>
        /\ DayAdvance = 1 + (6 - Weekday(now))
        /\ Weekday(assignment_date) = 0
        /\ DayAdvance \in 1..7

\* C11 witness: a Friday afternoon was moved three days on, to a Monday.
C11_Witness ==
    /\ dateDone
    /\ Weekday(now) = 4
    /\ AfterEight
    /\ DayAdvance = 3

\* C12: the returned timestamp has the time of day 08:00:00 exactly, with
\* no sub-second part left.
C12_ExactlyClassStart ==
    dateDone => assignment_date.time = CLASS_START

\* C13: a write of the record file that is interrupted leaves either the
\* complete previous record or the complete new record, never a file that
\* cannot be loaded.
C13_SaveAllOrNothing ==
    (AtEnd /\ result = "killed") =>
        /\ ~torn
        /\ \/ yesterday = recordBefore
           \/ yesterday = [exists |-> TRUE, data |-> created_ids]

\* C14: when a remote call of a run failed, the error-detail file holds
\* that error's payload when the run ends.
C14_ErrorFileWritten ==
    AtEnd =>
        \A c \in FailedCalls({"copy", "create", "deleteAssignment",
                              "deleteFile", "listCourses"}) :
            errorFile = [exists |-> TRUE, data |-> <<c.op, c.arg>>]

\* C15: a run that starts without a record file issues no deleteAssignment
\* and no deleteFile call.
C15_EmptyStartNoDelete ==
    (DefaultMode /\ ~recordBefore.exists) =>
        CallsOf({"deleteAssignment", "deleteFile"}) = {}

\* C15 witness: a run that started without a record file has provisioned
\* every template and written the record.
C15_Witness ==
    /\ AtEnd /\ DefaultMode
    /\ ~recordBefore.exists
    /\ result = "True"
    /\ Len(yesterday.data) = Len(Templates)
    /\ Len(calls) = 2 * Len(Templates)

\* the remote calls of Phase A, in the order they were issued
PhaseACalls ==
    SelectSeq(calls, LAMBDA c : c.op \in {"deleteAssignment", "deleteFile"})

\* C16: the deletes are issued pair by pair in record order, the assignment
\* of a pair before its file, and the file only after the delete of its
\* assignment returned without error.
C16_DeleteOrder ==
    DefaultMode =>
        \A m \in 1..Len(PhaseACalls) :
            LET c == PhaseACalls[m]
                pair == recordBefore.data[(m + 1) \div 2]
            IN  /\ (m + 1) \div 2 <= Len(recordBefore.data)
                /\ m % 2 = 1 => (c.op = "deleteAssignment" /\ c.arg = pair[1])
                /\ m % 2 = 0 => /\ c.op = "deleteFile"
                                /\ c.arg = pair[2]
                                /\ PhaseACalls[m - 1].ok

\* C16 witness: every pair of a full record was cleaned.
C16_Witness ==
    /\ DefaultMode
    /\ Len(recordBefore.data) = Len(Templates)
    /\ Len(PhaseACalls) = 2 * Len(recordBefore.data)
    /\ \A m \in 1..Len(PhaseACalls) : PhaseACalls[m].ok

\* the remote calls of Phase B, in the order they were issued
PhaseBCalls == SelectSeq(calls, LAMBDA c : c.op \in {"copy", "create"})

\* C17: after a failed copy or creation no further copy or creation is
\* issued in the run, and an assignment is created only right after the
\* copy of its template succeeded.
C17_AbortAfterFailure ==
    DefaultMode =>
        \A m \in 1..Len(PhaseBCalls) :
            LET c == PhaseBCalls[m] IN
            /\ ~c.ok => m = Len(PhaseBCalls)
            /\ c.op = "create" =>
                  /\ m > 1
                  /\ PhaseBCalls[m - 1].op = "copy"
                  /\ PhaseBCalls[m - 1].ok
                  /\ PhaseBCalls[m - 1].res = c.arg

\* C17 witness: the run ended after the creation for the first of several
\* templates failed.
C17_Witness ==
    /\ AtEnd /\ DefaultMode
    /\ Len(Templates) > 1
    /\ Len(PhaseBCalls) = 2
    /\ PhaseBCalls[2].op = "create"
    /\ ~PhaseBCalls[2].ok

\* C18: the returned date is a Monday, Tuesday, Wednesday, Thursday or
\* Friday.
C18_NeverWeekend ==
    dateDone => Weekday(assignment_date) \in 0..4

\* C18 witness: a date was computed from a Saturday timestamp.
C18_Witness ==
    /\ dateDone
    /\ Weekday(now) = 5
    /\ Weekday(assignment_date) = 0

\* a datetime a is earlier than a datetime b
DateTimeLess(a, b) ==
    \/ a.ord < b.ord
    \/ a.ord = b.ord /\ TimeLess(a.time, b.time)

====
